---- MODULE Spec2Model ----
(***************************************************************************)
(* A model of the catts-sdk: the SDK functions of src/src/index.ts         *)
(* (substitutePlaceholders, fetchQuery, runProcessor,                      *)
(* validateProcessorResult, validateSchemaItems) and the run command of    *)
(* src/src/catts.ts that chains them.                                      *)
(*                                                                         *)
(* JavaScript values are tagged records.  A JavaScript string that holds   *)
(* JSON text is a sequence of lexical tokens; JSON.parse is a recursive    *)
(* descent parser over that sequence and JSON.stringify the printer.       *)
(***************************************************************************)
EXTENDS Integers, Sequences, FiniteSets, TLC

VARIABLES
    pc,                 \* where the run command stands
    runs,               \* the runs started so far
    recipeImport,       \* the default export of recipe.js, once imported
    recipe,             \* what importRecipe returned
    fetches,            \* the fetchQuery call of each query of the recipe
    queryResults,       \* what Promise.all resolved to
    processor,          \* the processor script that was loaded
    contexts,           \* the QuickJS contexts created so far
    live,               \* the contexts created and not disposed
    vm,                 \* the context of the runProcessor call under way
    queryResultRaw,     \* the string bound to queryResultRaw in the context
    evalResult,         \* what vm.evalCode returned
    dumped,             \* what vm.dump returned for its error or value
    completion,         \* how the try block of runProcessor ended
    invocations,        \* how each runProcessor call so far ended
    caught,             \* the error the catch of runCommand received
    encoderInput,       \* the items handed to the schema encoder
    output,             \* the last line the run command wrote
    processorResult,    \* the value handed to validateProcessorResult
    validation,         \* what validateProcessorResult did with it
    USER_ETH_ADDRESS,   \* process.env.USER_ETH_ADDRESS
    variables,          \* the variables handed to substitutePlaceholders
    substituted,        \* what substitutePlaceholders returned for them
    uidCalls            \* the calls of getSchemaUid under way, one for each caller

(***************************************************************************)
(* Bounds of the model.                                                    *)
(***************************************************************************)
MaxItems == 2           \* longest array a script returns
MaxRuns == 2            \* most runs of the run command, one after the other
MaxChunks == 4          \* most halves of the placeholder in a variable structure
MaxEntries == 2         \* most keys a variable structure has, nested ones counted
MaxCallers == 2         \* most callers of getSchemaUid at the same time

(***************************************************************************)
(* JavaScript values.                                                      *)
(***************************************************************************)
JUndefined == [t |-> "undefined"]
JNull == [t |-> "null"]
JBool(b) == [t |-> "boolean", b |-> b]
JNum(n) == [t |-> "number", n |-> n]
JStr(s) == [t |-> "string", s |-> s]
JArr(items) == [t |-> "array", items |-> items]
JObj(members) == [t |-> "object", members |-> members]
\* a string whose content is looked at as JSON text: a sequence of tokens
JText(toks) == [t |-> "text", toks |-> toks]
\* a string whose content is looked at character by character
JChars(cs) == [t |-> "chars", cs |-> cs]
\* a function, with its source text
JFunction(source) == [t |-> "function", source |-> source]

Member(key, val) == [key |-> key, val |-> val]

\* typeof v
TypeOf(v) ==
    CASE v.t \in {"string", "text", "chars"} -> "string"
      [] v.t = "number" -> "number"
      [] v.t = "boolean" -> "boolean"
      [] v.t = "undefined" -> "undefined"
      [] v.t = "function" -> "function"
      [] OTHER -> "object"

\* obj[key] of a plain object: the value of the member, undefined when absent
RECURSIVE Lookup(_, _, _)
Lookup(members, key, i) ==
    IF i = 0 THEN JUndefined
    ELSE IF members[i].key = key THEN members[i].val
    ELSE Lookup(members, key, i - 1)

Get(obj, key) ==
    IF obj.t = "object" THEN Lookup(obj.members, key, Len(obj.members)) ELSE JUndefined

HasKey(members, key) == \E i \in 1..Len(members) : members[i].key = key

\* obj[key] = val: an existing key keeps its place, a new key goes last
SetMember(members, key, val) ==
    IF HasKey(members, key)
    THEN [i \in 1..Len(members) |->
            IF members[i].key = key THEN Member(key, val) ELSE members[i]]
    ELSE Append(members, Member(key, val))

(***************************************************************************)
(* JSON text: tokens, JSON.stringify and JSON.parse.                       *)
(***************************************************************************)
Tok(k) == [k |-> k, s |-> "", n |-> 0]
StrTok(s) == [k |-> "str", s |-> s, n |-> 0]
NumTok(n) == [k |-> "num", s |-> "", n |-> n]
Space == Tok(" ")

RECURSIVE Stringify(_), StringifyItems(_, _), StringifyMembers(_, _)
\* JSON.stringify(v) of a JSON value: the text without insignificant whitespace
Stringify(v) ==
    CASE v.t = "null" -> <<Tok("null")>>
      [] v.t = "boolean" -> IF v.b THEN <<Tok("true")>> ELSE <<Tok("false")>>
      [] v.t = "number" -> <<NumTok(v.n)>>
      [] v.t = "string" -> <<StrTok(v.s)>>
      [] v.t = "array" -> <<Tok("[")>> \o StringifyItems(v.items, 1) \o <<Tok("]")>>
      [] v.t = "object" -> <<Tok("{")>> \o StringifyMembers(v.members, 1) \o <<Tok("}")>>

StringifyItems(items, i) ==
    IF i > Len(items) THEN <<>>
    ELSE (IF i > 1 THEN <<Tok(",")>> ELSE <<>>)
         \o Stringify(items[i]) \o StringifyItems(items, i + 1)

StringifyMembers(members, i) ==
    IF i > Len(members) THEN <<>>
    ELSE (IF i > 1 THEN <<Tok(",")>> ELSE <<>>)
         \o <<StrTok(members[i].key), Tok(":")>> \o Stringify(members[i].val)
         \o StringifyMembers(members, i + 1)

ParseFail == [ok |-> FALSE, val |-> JNull, next |-> 0]
Parsed(val, next) == [ok |-> TRUE, val |-> val, next |-> next]
IsTok(toks, i, k) == i <= Len(toks) /\ toks[i].k = k

RECURSIVE ParseValue(_, _), ParseElements(_, _, _), ParseMembers(_, _, _)
\* the JSON value that starts at token i, and the position after it
ParseValue(toks, i) ==
    IF i > Len(toks) THEN ParseFail
    ELSE CASE toks[i].k = "null" -> Parsed(JNull, i + 1)
           [] toks[i].k = "true" -> Parsed(JBool(TRUE), i + 1)
           [] toks[i].k = "false" -> Parsed(JBool(FALSE), i + 1)
           [] toks[i].k = "num" -> Parsed(JNum(toks[i].n), i + 1)
           [] toks[i].k = "str" -> Parsed(JStr(toks[i].s), i + 1)
           [] toks[i].k = "[" ->
                IF IsTok(toks, i + 1, "]") THEN Parsed(JArr(<<>>), i + 2)
                ELSE ParseElements(toks, i + 1, <<>>)
           [] toks[i].k = "{" ->
                IF IsTok(toks, i + 1, "}") THEN Parsed(JObj(<<>>), i + 2)
                ELSE ParseMembers(toks, i + 1, <<>>)
           [] OTHER -> ParseFail

ParseElements(toks, i, acc) ==
    LET r == ParseValue(toks, i) IN
    IF ~r.ok THEN ParseFail
    ELSE IF IsTok(toks, r.next, ",")
         THEN ParseElements(toks, r.next + 1, Append(acc, r.val))
    ELSE IF IsTok(toks, r.next, "]")
         THEN Parsed(JArr(Append(acc, r.val)), r.next + 1)
    ELSE ParseFail

ParseMembers(toks, i, acc) ==
    IF ~(IsTok(toks, i, "str") /\ IsTok(toks, i + 1, ":")) THEN ParseFail
    ELSE LET r == ParseValue(toks, i + 2) IN
         IF ~r.ok THEN ParseFail
         ELSE IF IsTok(toks, r.next, ",")
              THEN ParseMembers(toks, r.next + 1, SetMember(acc, toks[i].s, r.val))
         ELSE IF IsTok(toks, r.next, "}")
              THEN Parsed(JObj(SetMember(acc, toks[i].s, r.val)), r.next + 1)
         ELSE ParseFail

IsSpace(tok) == tok.k = " "
NotSpace(tok) == ~IsSpace(tok)

\* JSON.parse(text): the value, or ok = FALSE where JSON.parse throws a
\* SyntaxError (no value, or text left over after the value)
JSONparse(toks) ==
    LET ts == SelectSeq(toks, NotSpace)
        r == ParseValue(ts, 1)
    IN IF r.ok /\ r.next = Len(ts) + 1
       THEN [ok |-> TRUE, val |-> r.val]
       ELSE [ok |-> FALSE, val |-> JNull]

(***************************************************************************)
(* Calls: a call returns a value or throws one.                            *)
(***************************************************************************)
NotCalled == [kind |-> "none", value |-> JUndefined]
Returned(v) == [kind |-> "return", value |-> v]
Thrown(e) == [kind |-> "throw", value |-> e]

\* new Error(message)
Error(message) == [t |-> "error", name |-> "Error", message |-> message]
\* what JSON.parse throws on malformed text
JSONSyntaxError == [t |-> "error", name |-> "SyntaxError", message |-> "Unexpected token in JSON"]

(***************************************************************************)
(* The zod schemas of SchemaValue and SchemaItem.                          *)
(***************************************************************************)
\* z.string()
zString_nonEmpty(v) == TypeOf(v) = "string" /\ v \notin {JStr(""), JChars(<<>>), JText(<<>>)}
zString(v) == TypeOf(v) = "string"

\* z.record(z.unknown())
zRecord(v) == v.t = "object"

\* z.union([z.string(), z.boolean(), z.number(), z.bigint()]); JSON text never
\* parses to a bigint
schemaValueBase(v) == zString(v) \/ v.t = "boolean" \/ v.t = "number" \/ v.t = "bigint"

\* z.union([z.record(z.unknown()), z.array(z.record(z.unknown())), z.array(z.unknown())])
schemaValueComplex(v) ==
    \/ zRecord(v)
    \/ v.t = "array" /\ \A i \in 1..Len(v.items) : zRecord(v.items[i])
    \/ v.t = "array"

\* z.union([schemaValueBase, schemaValueComplex])
SchemaValue(v) == schemaValueBase(v) \/ schemaValueComplex(v)

\* SchemaItem accepts item: z.object({name, type, value}) takes a plain object
\* (not null, not an array) whose three keys pass their schemas
SchemaItemAccepts(item) ==
    /\ item.t = "object"
    /\ zString(Get(item, "name"))
    /\ zString(Get(item, "type"))
    /\ SchemaValue(Get(item, "value"))

\* SchemaItem.parse(item) of an accepted item: a new object with the keys of the
\* schema and nothing else (z.object strips the keys it does not know)
SchemaItemParse(item) ==
    [name |-> Get(item, "name").s,
     type |-> Get(item, "type").s,
     value |-> Get(item, "value")]

(***************************************************************************)
(* validateProcessorResult                                                 *)
(***************************************************************************)
\* Array.isArray(json)
IsArray(json) == json.t = "array"

\* json.map((item) => SchemaItem.parse(item)) inside try/catch: the first item
\* that SchemaItem rejects throws, and the catch replaces that by one Error
MapSchemaItems_dropInvalid(items) ==
    LET good == SelectSeq(items, SchemaItemAccepts)
    IN Returned([i \in 1..Len(good) |-> SchemaItemParse(good[i])])
MapSchemaItems_reversed(items) ==
    IF \E i \in 1..Len(items) : ~SchemaItemAccepts(items[i])
    THEN Thrown(Error("Invalid processor result"))
    ELSE Returned([i \in 1..Len(items) |-> SchemaItemParse(items[Len(items) + 1 - i])])
MapSchemaItems(items) ==
    IF \E i \in 1..Len(items) : ~SchemaItemAccepts(items[i])
    THEN Thrown(Error("Invalid processor result"))
    ELSE Returned([i \in 1..Len(items) |-> SchemaItemParse(items[i])])

\* the checks on the parsed value
ValidateParsed_noEmptyCheck(json) ==
    IF ~IsArray(json) THEN Thrown(Error("Processor result must be an array"))
    ELSE IF Len(json.items) = 0 THEN Returned(<<>>)
    ELSE MapSchemaItems(json.items)
ValidateParsed_noArrayCheck(json) ==
    IF ~IsArray(json) THEN Thrown(Error("Invalid processor result"))
    ELSE IF Len(json.items) = 0 THEN Thrown(Error("Processor returned an empty array"))
    ELSE MapSchemaItems(json.items)
ValidateParsed(json) ==
    IF ~IsArray(json) THEN Thrown(Error("Processor result must be an array"))
    ELSE IF Len(json.items) = 0 THEN Thrown(Error("Processor returned an empty array"))
    ELSE MapSchemaItems(json.items)

\* a value that is no string taken for an empty result
validateProcessorResult_malformedAsInvalidItem(result) ==
    IF TypeOf(result) # "string" THEN Thrown(Error("Processor result must be a string"))
    ELSE LET parsed == JSONparse(result.toks) IN
         IF ~parsed.ok THEN Thrown(Error("Invalid processor result"))
         ELSE ValidateParsed(parsed.val)
validateProcessorResult_defaultsNonString(result) ==
    IF TypeOf(result) # "string" THEN Returned(<<>>)
    ELSE LET parsed == JSONparse(result.toks) IN
         IF ~parsed.ok THEN Thrown(JSONSyntaxError)
         ELSE ValidateParsed(parsed.val)
validateProcessorResult(result) ==
    IF TypeOf(result) # "string" THEN Thrown(Error("Processor result must be a string"))
    ELSE LET parsed == JSONparse(result.toks) IN
         IF ~parsed.ok THEN Thrown(JSONSyntaxError)
         ELSE ValidateParsed(parsed.val)

(***************************************************************************)
(* substitutePlaceholders                                                  *)
(***************************************************************************)
\* the placeholder "{user_eth_address}", character by character
Placeholder ==
    << "{", "u", "s", "e", "r", "_", "e", "t", "h", "_",
       "a", "d", "d", "r", "e", "s", "s", "}" >>

\* process.env.USER_ETH_ADDRESS is a string or is not set
EnvUnset == [set |-> FALSE, cs |-> <<>>]
EnvSet(cs) == [set |-> TRUE, cs |-> cs]

\* the address of twenty zero bytes, as text
ZeroAddress == <<"0", "x">> \o [i \in 1..40 |-> "0"]

ActualValue_zeroAddress(address) ==
    IF address.set /\ address.cs # <<>> THEN address.cs ELSE ZeroAddress
\* process.env.USER_ETH_ADDRESS || "": the empty string counts as not set
ActualValue(address) ==
    IF address.set /\ address.cs # <<>> THEN address.cs ELSE <<>>

\* pat occurs in str at position i
MatchAt(str, i, pat) ==
    /\ i + Len(pat) - 1 <= Len(str)
    /\ \A j \in 1..Len(pat) : str[i + j - 1] = pat[j]

Contains(str, pat) == \E i \in 1..Len(str) : MatchAt(str, i, pat)

RECURSIVE ReplaceFrom(_, _, _, _)
ReplaceFrom(str, i, pat, rep) ==
    IF i > Len(str) THEN <<>>
    ELSE IF MatchAt(str, i, pat) THEN rep \o ReplaceFrom(str, i + Len(pat), pat, rep)
    ELSE <<str[i]>> \o ReplaceFrom(str, i + 1, pat, rep)

RECURSIVE FirstMatch(_, _, _)
FirstMatch(str, i, pat) ==
    IF i > Len(str) THEN 0
    ELSE IF MatchAt(str, i, pat) THEN i
    ELSE FirstMatch(str, i + 1, pat)

\* str.replace(pat, rep) with a string pattern: the first occurrence only
ReplaceFirst(str, pat, rep) ==
    LET i == FirstMatch(str, 1, pat)
    IN IF i = 0 THEN str
       ELSE SubSeq(str, 1, i - 1) \o rep \o SubSeq(str, i + Len(pat), Len(str))

\* str.replace(new RegExp(placeholder, "g"), actualValue): the pattern
\* {user_eth_address} has no quantifier in it, so it matches itself; every match
\* found in one pass from the left is replaced, and the text put in is not
\* searched again
ReplaceAll(str, pat, rep) == ReplaceFrom(str, 1, pat, rep)

RECURSIVE replacePlaceholders(_, _), ReplaceEntries(_, _, _, _)
RECURSIVE ReplaceEntries_dropsOtherLeaves(_, _, _, _)
ReplaceEntries_dropsOtherLeaves(members, i, acc, actualValue) ==
    IF i > Len(members) THEN acc
    ELSE LET key == members[i].key
             value == members[i].val
         IN IF TypeOf(value) = "string"
            THEN ReplaceEntries_dropsOtherLeaves(members, i + 1,
                    SetMember(acc, key, JChars(ReplaceAll(value.cs, Placeholder, actualValue))),
                    actualValue)
            ELSE IF TypeOf(value) = "object" /\ value.t # "null"
            THEN ReplaceEntries_dropsOtherLeaves(members, i + 1,
                    SetMember(acc, key, replacePlaceholders(value, actualValue)), actualValue)
            ELSE ReplaceEntries_dropsOtherLeaves(members, i + 1, acc, actualValue)
\* Object.entries(obj).reduce(..., {}): every key in turn is set on a new object
ReplaceEntries(members, i, acc, actualValue) ==
    IF i > Len(members) THEN acc
    ELSE LET key == members[i].key
             value == members[i].val
             new == IF TypeOf(value) = "string"
                    THEN JChars(ReplaceAll(value.cs, Placeholder, actualValue))
                    ELSE IF TypeOf(value) = "object" /\ value.t # "null"
                    THEN replacePlaceholders(value, actualValue)
                    ELSE value
         IN ReplaceEntries(members, i + 1, SetMember(acc, key, new), actualValue)

replacePlaceholders(obj, actualValue) ==
    JObj(ReplaceEntries(obj.members, 1, <<>>, actualValue))

substitutePlaceholders(queryVariables, address) ==
    replacePlaceholders(queryVariables, ActualValue(address))


(***************************************************************************)
(* parseRecipe: the zod schema of a recipe.                                *)
(***************************************************************************)
MinLength == 3          \* .min(3) of name, displayName, description, keywords
MaxLength == 50         \* .max(50) of name, displayName, keywords
MaxDescriptionLength == 160

Digits == {"0", "1", "2", "3", "4", "5", "6", "7", "8", "9"}
LowerCase ==
    {"a", "b", "c", "d", "e", "f", "g", "h", "i", "j", "k", "l", "m",
     "n", "o", "p", "q", "r", "s", "t", "u", "v", "w", "x", "y", "z"}
UpperCase ==
    {"A", "B", "C", "D", "E", "F", "G", "H", "I", "J", "K", "L", "M",
     "N", "O", "P", "Q", "R", "S", "T", "U", "V", "W", "X", "Y", "Z"}

\* /^[a-zA-Z0-9-]+$/.test(val)
NameRegexTest(cs) ==
    /\ Len(cs) > 0
    /\ \A i \in 1..Len(cs) : cs[i] \in LowerCase \cup UpperCase \cup Digits \cup {"-"}

\* z.string().min(lo).max(hi) on a string held character by character
zStringBetween(v, lo, hi) == v.t = "chars" /\ Len(v.cs) >= lo /\ Len(v.cs) <= hi

zBoolean_falseOnly(v) == v = JBool(FALSE)
\* z.boolean()
zBoolean(v) == v.t = "boolean"

\* schema.optional()
zOptional(v, accepted) == v.t = "undefined" \/ accepted

\* the query schema: z.object({endpoint, query, variables})
QueryAccepts(q) ==
    /\ q.t = "object"
    /\ zString(Get(q, "endpoint"))
    /\ zString(Get(q, "query"))
    /\ zRecord(Get(q, "variables"))

\* the recipe schema accepts input
RecipeAccepts(input) ==
    /\ input.t = "object"
    /\ zStringBetween(Get(input, "name"), MinLength, MaxLength)
    /\ NameRegexTest(Get(input, "name").cs)
    /\ zOptional(Get(input, "displayName"),
                 zStringBetween(Get(input, "displayName"), MinLength, MaxLength))
    /\ zOptional(Get(input, "description"),
                 zStringBetween(Get(input, "description"), MinLength, MaxDescriptionLength))
    /\ zOptional(Get(input, "keywords"),
                 /\ Get(input, "keywords").t = "array"
                 /\ \A i \in 1..Len(Get(input, "keywords").items) :
                        zStringBetween(Get(input, "keywords").items[i], MinLength, MaxLength))
    /\ Get(input, "queries").t = "array"
    /\ \A i \in 1..Len(Get(input, "queries").items) :
            QueryAccepts(Get(input, "queries").items[i])
    /\ zString(Get(input, "schema"))
    /\ zString(Get(input, "resolver"))
    /\ zBoolean(Get(input, "revokable"))

ZodError == [t |-> "error", name |-> "ZodError", message |-> "invalid recipe"]

\* recipe.parse(input): the recipe with the keys of the schema, or a ZodError
parseRecipe(input) ==
    IF RecipeAccepts(input)
    THEN Returned([name |-> Get(input, "name"),
                   displayName |-> Get(input, "displayName"),
                   description |-> Get(input, "description"),
                   keywords |-> Get(input, "keywords"),
                   queries |-> Get(input, "queries").items,
                   schema |-> Get(input, "schema"),
                   resolver |-> Get(input, "resolver"),
                   revokable |-> Get(input, "revokable").b])
    ELSE Thrown(ZodError)

(***************************************************************************)
(* fetchQuery                                                              *)
(***************************************************************************)
\* what fetch, or reading the response, throws
FetchFailed == [t |-> "error", name |-> "TypeError", message |-> "fetch failed"]
BodyNotJson == [t |-> "error", name |-> "SyntaxError", message |-> "Unexpected token in JSON"]

\* the fetch of a query from its start to the point where it waits for the
\* response: the variables are substituted and the request is sent
FetchSent(query, address) ==
    [state |-> "pending",
     variables |-> substitutePlaceholders(Get(query, "variables"), address),
     result |-> JUndefined,
     outcome |-> "none",
     seq |-> 0]

\* how fetchQuery settles, by what happens to the request: the response body
\* parsed, the error of a failed request handed back as the result by the catch,
\* or the promise of response.json(), which is returned without await and so
\* rejects past the catch
FetchSettled(fetch, outcome) ==
    CASE outcome.kind = "json" ->
            [fetch EXCEPT !.state = "fulfilled", !.result = outcome.body, !.outcome = "json"]
      [] outcome.kind = "network" ->
            [fetch EXCEPT !.state = "fulfilled", !.result = FetchFailed, !.outcome = "network"]
      [] outcome.kind = "body" ->
            [fetch EXCEPT !.state = "rejected", !.result = BodyNotJson, !.outcome = "body"]

\* how many of the fetches have settled
Settled(fetches_) == Cardinality({i \in 1..Len(fetches_) : fetches_[i].state # "pending"})

PromiseAllResults_inCompletionOrder(promises) ==
    [k \in 1..Len(promises) |->
        promises[CHOOSE i \in 1..Len(promises) : promises[i].seq = k].result]
\* Promise.all(promises) fulfils with the values of the promises in the order of
\* the array it was given, whenever each of them settled
PromiseAllResults(promises) == [i \in 1..Len(promises) |-> promises[i].result]

(***************************************************************************)
(* runProcessor                                                            *)
(***************************************************************************)
\* an Error object of the sandbox
SandboxError(name, message) == [t |-> "error", name |-> name, message |-> message]

\* vm.dump(handle): strings, numbers and undefined are read as they are, any
\* other value goes through JSON text; an Error object is dumped as a plain
\* object with its name, message and stack; a value JSON cannot print, such as
\* a function, is dumped as the string String(v)
DumpText(v) ==
    CASE v.t = "error" ->
            Stringify(JObj(<<Member("name", JStr(v.name)), Member("message", JStr(v.message)),
                             Member("stack", JStr("    at process (eval.js)"))>>))
      [] v.t = "function" -> v.source
      [] OTHER -> Stringify(v)
Dump(v) ==
    IF TypeOf(v) \in {"string", "number", "undefined"} THEN v
    ELSE LET parsed == JSONparse(DumpText(v)) IN
         IF parsed.ok THEN parsed.val ELSE JText(DumpText(v))

\* JSON.stringify(queryResults) of the results as fetchQuery settled them: an
\* Error has no enumerable key and prints as {}
ResultJson(result) == IF result.t = "error" THEN JObj(<<>>) ELSE result
MarshalIn(results) ==
    JText(Stringify(JArr([i \in 1..Len(results) |-> ResultJson(results[i])])))

\* let queryResult = JSON.parse(queryResultRaw).map((res) => res.data): reading
\* data of null throws a TypeError inside the sandbox
PreludeThrows(raw) ==
    LET parsed == JSONparse(raw.toks).val
    IN \E i \in 1..Len(parsed.items) : parsed.items[i].t = "null"

\* vm.evalCode(processor): the wrapped script ends with an error or with the
\* value of process()
EvalCode(script, raw) ==
    IF PreludeThrows(raw)
    THEN [kind |-> "error", handle |-> SandboxError("TypeError", "cannot read property 'data' of null")]
    ELSE IF script.kind = "throw" THEN [kind |-> "error", handle |-> script.value]
    ELSE [kind |-> "value", handle |-> script.value]

\* the end of the try block: the dumped error is thrown, the dumped value is
\* returned
Completion_wrapsError(result, dumpedValue) ==
    IF result.kind = "error" THEN Thrown(Error("Processor failed")) ELSE Returned(dumpedValue)
Completion(result, dumpedValue) ==
    IF result.kind = "error" THEN Thrown(dumpedValue) ELSE Returned(dumpedValue)

\* finally { vm.dispose() }: the context is disposed however the try block ended
DisposeOnExit_onlyOnReturn(liveContexts, context, ending) ==
    IF ending.kind = "return" THEN liveContexts \ {context} ELSE liveContexts
DisposeOnExit(liveContexts, context, ending) == liveContexts \ {context}

(***************************************************************************)
(* getSchemaUid                                                            *)
(***************************************************************************)
HexDigits == Digits \cup {"a", "b", "c", "d", "e", "f"} \cup {"A", "B", "C", "D", "E", "F"}

\* the hexadecimal digit in lower case
LowerHex(c) ==
    CASE c = "A" -> "a" [] c = "B" -> "b" [] c = "C" -> "c"
      [] c = "D" -> "d" [] c = "E" -> "e" [] c = "F" -> "f"
      [] OTHER -> c

\* the UTF-8 byte of a character of a schema text, as two hexadecimal digits
CharCode(c) ==
    CASE c = " " -> <<"2", "0">>
      [] c = "a" -> <<"6", "1">>
      [] c = "b" -> <<"6", "2">>
      [] c = "l" -> <<"6", "c">>
      [] c = "o" -> <<"6", "f">>
      [] c = "x" -> <<"7", "8">>

\* the text without a leading 0x
HexPart(cs) ==
    IF Len(cs) >= 2 /\ cs[1] = "0" /\ cs[2] = "x" THEN SubSeq(cs, 3, Len(cs)) ELSE cs

\* what the packing takes for an address: forty hexadecimal digits, with or
\* without 0x in front
IsAddress(cs) ==
    /\ Len(HexPart(cs)) = 40
    /\ \A i \in 1..40 : HexPart(cs)[i] \in HexDigits

InvalidAddress == [t |-> "error", name |-> "TypeError", message |-> "invalid address"]

\* the packed bytes of one value of the given type: the UTF-8 bytes of a string,
\* the twenty bytes of an address, one byte for a bool
PackedValue(type, value) ==
    CASE type = "string" -> [i \in 1..Len(value) |-> CharCode(value[i])]
      [] type = "address" ->
            [i \in 1..20 |-> <<LowerHex(HexPart(value)[2 * i - 1]), LowerHex(HexPart(value)[2 * i])>>]
      [] type = "bool" -> IF value THEN << <<"0", "1">> >> ELSE << <<"0", "0">> >>

RECURSIVE solidityPacked(_, _, _)
\* the packed bytes of the values from the i-th on, one after the other
solidityPacked(types, values, i) ==
    IF i > Len(types) THEN <<>>
    ELSE PackedValue(types[i], values[i]) \o solidityPacked(types, values, i + 1)

\* the Keccak-256 digest of the bytes, taken as free of collisions
keccak256(bytes) == [keccak256 |-> bytes]

\* solidityPackedKeccak256(types, values): throws on a value that is no address
\* where an address is due
solidityPackedKeccak256(types, values) ==
    IF \E i \in 1..Len(types) : types[i] = "address" /\ ~IsAddress(values[i])
    THEN Thrown(InvalidAddress)
    ELSE Returned(keccak256(solidityPacked(types, values, 1)))

getSchemaUid(schema, resolver, revokable) ==
    solidityPackedKeccak256(<<"string", "address", "bool">>, <<schema, resolver, revokable>>)

Callers == 1..MaxCallers

\* a caller that has not called
Idle == [pc |-> "idle", schema |-> <<>>, resolver |-> <<>>, revokable |-> FALSE,
         result |-> NotCalled]
NoUidCalls == [c \in Callers |-> Idle]

Parameters_ofLatestCaller(calls, c) ==
    calls[CHOOSE d \in Callers :
            /\ calls[d].pc = "called"
            /\ \A e \in Callers : calls[e].pc = "called" => e <= d]
\* the parameters schema, resolver and revokable of a call are its own
Parameters(calls, c) == calls[c]

(***************************************************************************)
(* The values a processor script can leave behind.                         *)
(***************************************************************************)
Item(name, type, value) ==
    JObj(<<Member("name", name), Member("type", type), Member("value", value)>>)

\* array elements SchemaItem accepts
GoodElements ==
    { Item(JStr("ok"), JStr("bool"), JBool(TRUE)),
      Item(JStr("n"), JStr("uint256"), JNum(1)),
      Item(JStr("s"), JStr("string"), JStr("x")),
      Item(JStr("o"), JStr("tuple"), JObj(<<Member("a", JNull)>>)),
      Item(JStr("a"), JStr("uint8[]"), JArr(<<JNum(1), JNull>>)),
      Item(JStr("r"), JStr("tuple[]"), JArr(<<JObj(<<>>)>>)),
      \* the keys in another order, and a key SchemaItem does not know
      JObj(<<Member("value", JBool(FALSE)), Member("type", JStr("bool")),
             Member("extra", JNum(7)), Member("name", JStr("ok"))>>),
      \* empty name, empty type
      Item(JStr(""), JStr("bool"), JBool(TRUE)),
      Item(JStr("ok"), JStr(""), JBool(TRUE)) }

\* array elements SchemaItem rejects
BadElements ==
    { JObj(<<Member("type", JStr("bool")), Member("value", JBool(TRUE))>>),
      JObj(<<Member("name", JStr("ok")), Member("value", JBool(TRUE))>>),
      JObj(<<Member("name", JStr("ok")), Member("type", JStr("bool"))>>),
      Item(JStr("ok"), JStr("bool"), JNull),
      Item(JNum(1), JStr("bool"), JBool(TRUE)),
      Item(JStr("ok"), JNull, JBool(TRUE)),
      JNum(1), JNull, JStr("ok"),
      JArr(<<JStr("ok"), JStr("bool"), JBool(TRUE)>>) }

Elements == GoodElements \cup BadElements

RECURSIVE SeqsUpTo(_, _)
\* the sequences over S of length at most n
SeqsUpTo(S, n) ==
    IF n = 0 THEN {<<>>}
    ELSE LET shorter == SeqsUpTo(S, n - 1)
         IN shorter \cup {Append(q, x) : q \in {r \in shorter : Len(r) = n - 1}, x \in S}

\* JSON values that are not arrays
NonArrays ==
    { JNull, JBool(TRUE), JNum(1), JStr("ok"), JObj(<<>>), JObj(<<Member("a", JNum(1))>>),
      Item(JStr("ok"), JStr("bool"), JBool(TRUE)) }

JsonResults == NonArrays \cup {JArr(items) : items \in SeqsUpTo(Elements, MaxItems)}

\* well-formed text: what JSON.stringify prints, with or without whitespace
\* around it
WellFormedTexts ==
    {Stringify(v) : v \in JsonResults}
    \cup {<<Space>> \o Stringify(v) \o <<Space>> : v \in NonArrays \cup {JArr(<<>>)}}
    \cup {<<Tok("["), Space, Tok("]")>>}

\* malformed text: empty, a bare word, a value cut short or with a token too many
MalformedTexts ==
    { <<>>, <<Tok("word")>>, <<Tok("["), NumTok(1), Tok(","), Tok("]")>>,
      <<Tok("["), Tok("]"), Tok("]")>>, <<Tok("{"), StrTok("a"), Tok("}")>> }
    \cup {SubSeq(Stringify(v), 1, Len(Stringify(v)) - 1) :
            v \in {JArr(<<e>>) : e \in Elements}}

\* what runProcessor can return: any string, or a value that is no string
NonStrings ==
    { JUndefined, JNull, JNum(1), JBool(TRUE), JObj(<<>>),
      JArr(<<Item(JStr("ok"), JStr("bool"), JBool(TRUE))>>) }

ProcessorResults ==
    {JText(toks) : toks \in WellFormedTexts \cup MalformedTexts} \cup NonStrings

(***************************************************************************)
(* The triples getSchemaUid is called with.                                *)
(***************************************************************************)
Schemas == { <<"b", "o", "o", "l", " ", "a">>, <<"b", "o", "o", "l", " ", "b">> }

\* an address in lower case, the same address in upper case, and the resolver
\* of the README, which is no address
Resolvers ==
    { <<"0", "x">> \o [i \in 1..40 |-> "a"],
      <<"0", "x">> \o [i \in 1..40 |-> "A"],
      <<"0", "x", "1", "2", "3", "4", "5", "6", "7", "8", "9", "0", "a", "b", "c", "d", "e", "f">> }

(***************************************************************************)
(* The variable structures a query can declare.                            *)
(***************************************************************************)
\* the two halves of the placeholder, "{user_eth_" and "address}"
TokenHead == SubSeq(Placeholder, 1, 10)
TokenTail == SubSeq(Placeholder, 11, Len(Placeholder))

RECURSIVE Flatten(_)
\* the chunks one after the other
Flatten(chunks) ==
    IF Len(chunks) = 0 THEN <<>> ELSE chunks[1] \o Flatten(SubSeq(chunks, 2, Len(chunks)))

\* the strings made of at most c halves of the placeholder, in any order
StringsUpTo(c) == {Flatten(chunks) : chunks \in SeqsUpTo({TokenHead, TokenTail}, c)}

\* the leaves that hold nothing of the placeholder: a number and a string
PlainLeaves == {JNum(1), JChars(<<"0", "x", "1">>)}

VariableKeys == {"where", "take"}

RECURSIVE MembersUpTo(_, _)
\* the member lists of the objects with at most n keys and at most c halves of
\* the placeholder in all, nested ones counted
MembersUpTo(n, c) ==
    IF n = 0 THEN {<<>>}
    ELSE LET smaller == [m \in 0..(n - 1) |-> [d \in 0..c |-> MembersUpTo(m, d)]]
             values == [m \in 0..(n - 1) |-> [d \in 0..c |->
                            PlainLeaves
                            \cup {JChars(cs) : cs \in StringsUpTo(d)}
                            \cup {JObj(o) : o \in smaller[m][d]}]]
             others == [m \in 0..(n - 1) |-> [d \in 0..c |->
                            [k \in VariableKeys |-> {r \in smaller[m][d] : ~HasKey(r, k)}]]]
         IN {<<>>} \cup UNION { UNION { UNION {
                { <<Member(k, v)>> \o rest :
                    v \in values[m][d], rest \in others[n - 1 - m][c - d][k] }
                : d \in 0..c }
                : m \in 0..(n - 1) }
                : k \in VariableKeys }

QueryVariables == {JObj(members) : members \in MembersUpTo(MaxEntries, MaxChunks)}

UserEthAddresses == {EnvUnset, EnvSet(<<"0", "x", "A", "b">>)}

(***************************************************************************)
(* What the run command is given: recipes, responses, processor scripts.   *)
(***************************************************************************)
Chars(n) == [i \in 1..n |-> "a"]

QueryOf(queryVariables) ==
    JObj(<<Member("endpoint", JStr("https://optimism.easscan.org/graphql")),
           Member("query", JStr("query PassportQuery")),
           Member("variables", queryVariables)>>)

\* the variables of the queries of recipes/eu_gtc_passport_30
PassportVariables ==
    JObj(<<Member("where", JObj(<<Member("recipient", JObj(<<
                Member("equals", JChars(Placeholder)),
                Member("mode", JChars(<<"i", "n", "s">>))>>))>>)),
           Member("take", JNum(1))>>)

RecipeOf(name, queries, revokable) ==
    JObj(<<Member("name", name), Member("queries", queries),
           Member("schema", JStr("bool eu_gtc_passport_30")),
           Member("resolver", JStr("0x0000000000000000000000000000000000000000")),
           Member("revokable", revokable)>>)

PassportName == JChars(<<"e", "u", "-", "g", "t", "c">>)

\* the default export of recipe.js
RecipeInputs ==
    { RecipeOf(PassportName, JArr(<<QueryOf(PassportVariables)>>), JBool(FALSE)),
      RecipeOf(PassportName,
               JArr(<<QueryOf(PassportVariables), QueryOf(JObj(<<Member("take", JNum(1))>>))>>),
               JBool(FALSE)),
      RecipeOf(PassportName, JArr(<<QueryOf(PassportVariables)>>), JBool(TRUE)),
      RecipeOf(JChars(<<"e", "u", "_", "g", "t", "c">>), JArr(<<>>), JBool(FALSE)),
      RecipeOf(JChars(Chars(MinLength - 1)), JArr(<<>>), JBool(FALSE)),
      RecipeOf(JChars(Chars(MaxLength + 1)), JArr(<<>>), JBool(FALSE)),
      RecipeOf(PassportName, JArr(<<QueryOf(JNum(1))>>), JBool(FALSE)),
      RecipeOf(PassportName, JArr(<<QueryOf(PassportVariables)>>), JUndefined),
      JUndefined }

\* what becomes of a request: a JSON body, a body that is no JSON, no response
FetchOutcomes ==
    { [kind |-> "json", body |-> JObj(<<Member("data", JObj(<<Member("attestations", JArr(<<>>))>>))>>)],
      [kind |-> "json", body |-> JObj(<<Member("errors", JArr(<<JStr("bad request")>>))>>)],
      [kind |-> "json", body |-> JNull],
      [kind |-> "body", body |-> JUndefined],
      [kind |-> "network", body |-> JUndefined] }

ScriptReturns(value) == [kind |-> "return", value |-> value]
ScriptThrows(value) == [kind |-> "throw", value |-> value]

\* processor.js, by what the wrapped script does in the sandbox
Scripts ==
    { ScriptReturns(JText(Stringify(JArr(<<Item(JStr("ok"), JStr("bool"), JBool(TRUE))>>)))),
      ScriptReturns(JText(Stringify(JArr(<<>>)))),
      ScriptReturns(JText(Stringify(JObj(<<Member("a", JNum(1))>>)))),
      ScriptReturns(JText(Stringify(JArr(<<Item(JStr("ok"), JStr("bool"), JNull)>>)))),
      ScriptReturns(JText(<<Tok("word")>>)),
      ScriptReturns(JUndefined),
      ScriptReturns(JNum(1)),
      ScriptReturns(JNull),
      ScriptReturns(JObj(<<Member("name", JStr("ok"))>>)),
      ScriptReturns(JArr(<<>>)),
      ScriptReturns(JArr(<<Item(JStr("ok"), JStr("bool"), JBool(TRUE))>>)),
      ScriptReturns(JFunction(<<Tok("word")>>)),
      ScriptThrows(SandboxError("SyntaxError", "unexpected token")),
      ScriptThrows(SandboxError("Error", "no passport")),
      ScriptThrows(JText(<<Tok("word")>>)),
      ScriptThrows(JNum(1)) }

NoScript == [kind |-> "none", value |-> JUndefined]
NoRecipe == NotCalled

(***************************************************************************)
(* The run command.                                                        *)
(***************************************************************************)
vars ==
    << pc, runs, recipeImport, recipe, fetches, queryResults, processor, contexts, live, vm,
       queryResultRaw, evalResult, dumped, completion, invocations, caught,
       encoderInput, output, processorResult, validation,
       USER_ETH_ADDRESS, variables, substituted, uidCalls >>

\* the state of a run that has not started
RunState ==
    /\ recipeImport = NotCalled
    /\ recipe = NoRecipe
    /\ fetches = <<>>
    /\ queryResults = <<>>
    /\ processor = NoScript
    /\ vm = 0
    /\ queryResultRaw = JUndefined
    /\ evalResult = [kind |-> "none", handle |-> JUndefined]
    /\ dumped = NotCalled
    /\ completion = NotCalled
    /\ caught = NotCalled
    /\ encoderInput = NotCalled
    /\ output = ""
    /\ processorResult = JUndefined
    /\ validation = NotCalled

Init ==
    /\ pc = "start"
    /\ runs = 1
    /\ RunState
    /\ contexts = 0
    /\ live = {}
    /\ invocations = <<>>
    /\ USER_ETH_ADDRESS \in UserEthAddresses
    /\ variables = JObj(<<>>)
    /\ substituted = NotCalled
    /\ uidCalls = NoUidCalls

\* catch (error) { console.log("Run failed"); logError(error) }
Catch(error) ==
    /\ pc' = "failed"
    /\ caught' = Thrown(error)
    /\ output' = "Run failed"

\* the preAction hook: without USER_ETH_ADDRESS the process exits
PreAction ==
    /\ pc = "start"
    /\ pc' = IF ActualValue(USER_ETH_ADDRESS) = <<>> THEN "exit" ELSE "import"
    /\ UNCHANGED << runs, recipeImport, recipe, fetches, queryResults, processor, contexts, live, vm,
                    queryResultRaw, evalResult, dumped, completion, invocations, caught,
                    encoderInput, output, processorResult, validation,
                    USER_ETH_ADDRESS, variables, substituted, uidCalls >>

\* importRecipe: the recipe file is found or not, and its export is parsed
ImportRecipe ==
    /\ pc = "import"
    /\ \E found \in BOOLEAN, input \in RecipeInputs :
        IF ~found
        THEN Catch(Error("Recipe file not found")) /\ UNCHANGED <<recipeImport, recipe>>
        ELSE LET parsed == parseRecipe(input) IN
             /\ recipeImport' = Returned(input)
             /\ IF parsed.kind = "throw"
                THEN Catch(parsed.value) /\ UNCHANGED recipe
                ELSE /\ recipe' = parsed
                     /\ pc' = "map"
                     /\ UNCHANGED <<caught, output>>
    /\ UNCHANGED << runs, fetches, queryResults, processor, contexts, live, vm,
                    queryResultRaw, evalResult, dumped, completion, invocations,
                    encoderInput, processorResult, validation,
                    USER_ETH_ADDRESS, variables, substituted, uidCalls >>

\* recipe.queries.map(fetchQuery): every fetchQuery runs to its await
StartFetches ==
    /\ pc = "map"
    /\ fetches' = [i \in 1..Len(recipe.value.queries) |->
                        FetchSent(recipe.value.queries[i], USER_ETH_ADDRESS)]
    /\ pc' = "fetch"
    /\ UNCHANGED << runs, recipeImport, recipe, queryResults, processor, contexts, live, vm,
                    queryResultRaw, evalResult, dumped, completion, invocations, caught,
                    encoderInput, output, processorResult, validation,
                    USER_ETH_ADDRESS, variables, substituted, uidCalls >>

\* one fetchQuery settles, in any order and after any of the others (seq is its
\* place in the order of completion); Promise.all rejects with the first
\* rejection
FetchSettles ==
    /\ pc = "fetch"
    /\ \E i \in 1..Len(fetches), outcome \in FetchOutcomes :
        /\ fetches[i].state = "pending"
        /\ fetches' = [fetches EXCEPT ![i] =
                            [FetchSettled(fetches[i], outcome) EXCEPT !.seq = Settled(fetches) + 1]]
        /\ IF fetches'[i].state = "rejected"
           THEN Catch(fetches'[i].result)
           ELSE UNCHANGED <<pc, caught, output>>
    /\ UNCHANGED << runs, recipeImport, recipe, queryResults, processor, contexts, live, vm,
                    queryResultRaw, evalResult, dumped, completion, invocations,
                    encoderInput, processorResult, validation,
                    USER_ETH_ADDRESS, variables, substituted, uidCalls >>

\* await Promise.all(queryPromises): the results in the order of the promises
PromiseAll ==
    /\ pc = "fetch"
    /\ \A i \in 1..Len(fetches) : fetches[i].state = "fulfilled"
    /\ queryResults' = PromiseAllResults(fetches)
    /\ pc' = "load"
    /\ UNCHANGED << runs, recipeImport, recipe, fetches, processor, contexts, live, vm,
                    queryResultRaw, evalResult, dumped, completion, invocations, caught,
                    encoderInput, output, processorResult, validation,
                    USER_ETH_ADDRESS, variables, substituted, uidCalls >>

\* loadProcessor: processor.js is read, or the read fails
LoadProcessor ==
    /\ pc = "load"
    /\ \E found \in BOOLEAN, script \in Scripts :
        IF ~found
        THEN Catch(Error("ENOENT: no such file or directory")) /\ UNCHANGED processor
        ELSE /\ processor' = script
             /\ pc' = "newContext"
             /\ UNCHANGED <<caught, output>>
    /\ UNCHANGED << runs, recipeImport, recipe, fetches, queryResults, contexts, live, vm,
                    queryResultRaw, evalResult, dumped, completion, invocations,
                    encoderInput, processorResult, validation,
                    USER_ETH_ADDRESS, variables, substituted, uidCalls >>

\* runProcessor: const vm = QuickJS.newContext()
NewContext ==
    /\ pc = "newContext"
    /\ contexts' = contexts + 1
    /\ vm' = contexts + 1
    /\ live' = live \cup {contexts + 1}
    /\ pc' = "marshal"
    /\ UNCHANGED << runs, recipeImport, recipe, fetches, queryResults, processor,
                    queryResultRaw, evalResult, dumped, completion, invocations, caught,
                    encoderInput, output, processorResult, validation,
                    USER_ETH_ADDRESS, variables, substituted, uidCalls >>

\* runProcessor: the query results are printed as JSON text and bound to
\* queryResultRaw in the context, or making the string throws
SetQueryResultRaw ==
    /\ pc = "marshal"
    /\ \E thrown \in BOOLEAN :
        IF thrown
        THEN /\ completion' = Thrown(Error("out of memory"))
             /\ pc' = "finally"
             /\ UNCHANGED queryResultRaw
        ELSE /\ queryResultRaw' = MarshalIn(queryResults)
             /\ pc' = "eval"
             /\ UNCHANGED completion
    /\ UNCHANGED << runs, recipeImport, recipe, fetches, queryResults, processor, contexts, live, vm,
                    evalResult, dumped, invocations, caught,
                    encoderInput, output, processorResult, validation,
                    USER_ETH_ADDRESS, variables, substituted, uidCalls >>

\* runProcessor: const result = vm.evalCode(processor)
EvalProcessor ==
    /\ pc = "eval"
    /\ evalResult' = EvalCode(processor, queryResultRaw)
    /\ pc' = "dump"
    /\ UNCHANGED << runs, recipeImport, recipe, fetches, queryResults, processor, contexts, live, vm,
                    queryResultRaw, dumped, completion, invocations, caught,
                    encoderInput, output, processorResult, validation,
                    USER_ETH_ADDRESS, variables, substituted, uidCalls >>

\* runProcessor: result.error or result.value is dumped, then thrown or
\* returned; a dump that throws ends the try block with what it threw
DumpResult ==
    /\ pc = "dump"
    /\ \E thrown \in BOOLEAN :
        IF thrown
        THEN /\ dumped' = Thrown(Error("Lifetime not alive"))
             /\ completion' = Thrown(Error("Lifetime not alive"))
        ELSE /\ dumped' = Returned(Dump(evalResult.handle))
             /\ completion' = Completion(evalResult, Dump(evalResult.handle))
    /\ pc' = "finally"
    /\ UNCHANGED << runs, recipeImport, recipe, fetches, queryResults, processor, contexts, live, vm,
                    queryResultRaw, evalResult, invocations, caught,
                    encoderInput, output, processorResult, validation,
                    USER_ETH_ADDRESS, variables, substituted, uidCalls >>

\* runProcessor: finally { vm.dispose() }, and runCommand goes on with the value
\* returned or catches what was thrown
Finally ==
    /\ pc = "finally"
    /\ live' = DisposeOnExit(live, vm, completion)
    /\ vm' = 0
    /\ invocations' = Append(invocations, completion.kind)
    /\ IF completion.kind = "throw"
       THEN Catch(completion.value) /\ UNCHANGED processorResult
       ELSE /\ processorResult' = completion.value
            /\ pc' = "validate"
            /\ UNCHANGED <<caught, output>>
    /\ UNCHANGED << runs, recipeImport, recipe, fetches, queryResults, processor, contexts,
                    queryResultRaw, evalResult, dumped, completion,
                    encoderInput, validation,
                    USER_ETH_ADDRESS, variables, substituted, uidCalls >>

\* const schemaItems = await validateProcessorResult({processorResult})
Validate ==
    /\ pc = "validate"
    /\ validation' = validateProcessorResult(processorResult)
    /\ IF validation'.kind = "throw"
       THEN Catch(validation'.value)
       ELSE pc' = "encode" /\ UNCHANGED <<caught, output>>
    /\ UNCHANGED << runs, recipeImport, recipe, fetches, queryResults, processor, contexts, live, vm,
                    queryResultRaw, evalResult, dumped, completion, invocations,
                    encoderInput, processorResult,
                    USER_ETH_ADDRESS, variables, substituted, uidCalls >>

\* validateSchemaItems: the schema encoder takes the items or throws
Encode ==
    /\ pc = "encode"
    /\ encoderInput' = Returned(validation.value)
    /\ \E encoded \in BOOLEAN :
        IF encoded
        THEN pc' = "done" /\ output' = "Done" /\ UNCHANGED caught
        ELSE Catch(Error("Invalid number or values"))
    /\ UNCHANGED << runs, recipeImport, recipe, fetches, queryResults, processor, contexts, live, vm,
                    queryResultRaw, evalResult, dumped, completion, invocations,
                    processorResult, validation,
                    USER_ETH_ADDRESS, variables, substituted, uidCalls >>

\* the run command is started again
NextRun ==
    /\ pc \in {"done", "failed"}
    /\ runs < MaxRuns
    /\ runs' = runs + 1
    /\ pc' = "start"
    /\ recipeImport' = NotCalled
    /\ recipe' = NoRecipe
    /\ fetches' = <<>>
    /\ queryResults' = <<>>
    /\ processor' = NoScript
    /\ vm' = 0
    /\ queryResultRaw' = JUndefined
    /\ evalResult' = [kind |-> "none", handle |-> JUndefined]
    /\ dumped' = NotCalled
    /\ completion' = NotCalled
    /\ caught' = NotCalled
    /\ encoderInput' = NotCalled
    /\ output' = ""
    /\ processorResult' = JUndefined
    /\ validation' = NotCalled
    /\ UNCHANGED <<contexts, live, invocations, USER_ETH_ADDRESS, variables, substituted, uidCalls>>

Next ==
    \/ PreAction
    \/ ImportRecipe
    \/ StartFetches
    \/ FetchSettles
    \/ PromiseAll
    \/ LoadProcessor
    \/ NewContext
    \/ SetQueryResultRaw
    \/ EvalProcessor
    \/ DumpResult
    \/ Finally
    \/ Validate
    \/ Encode
    \/ NextRun

Spec == Init /\ [][Next]_vars

(***************************************************************************)
(* validateProcessorResult on its own: any processor result is validated   *)
(* once.                                                                   *)
(***************************************************************************)
\* no run command under way
NoRun ==
    /\ pc = "sdk"
    /\ runs = 0
    /\ RunState
    /\ contexts = 0
    /\ live = {}
    /\ invocations = <<>>

InitValidate ==
    /\ pc = "sdk"
    /\ runs = 0
    /\ recipeImport = NotCalled
    /\ recipe = NoRecipe
    /\ fetches = <<>>
    /\ queryResults = <<>>
    /\ processor = NoScript
    /\ vm = 0
    /\ queryResultRaw = JUndefined
    /\ evalResult = [kind |-> "none", handle |-> JUndefined]
    /\ dumped = NotCalled
    /\ completion = NotCalled
    /\ caught = NotCalled
    /\ encoderInput = NotCalled
    /\ output = ""
    /\ contexts = 0
    /\ live = {}
    /\ invocations = <<>>
    /\ processorResult \in ProcessorResults
    /\ validation = NotCalled
    /\ USER_ETH_ADDRESS = EnvUnset
    /\ variables = JObj(<<>>)
    /\ substituted = NotCalled
    /\ uidCalls = NoUidCalls

ValidateProcessorResult ==
    /\ pc = "sdk"
    /\ validation.kind = "none"
    /\ validation' = validateProcessorResult(processorResult)
    /\ UNCHANGED << pc, runs, recipeImport, recipe, fetches, queryResults, processor, contexts, live, vm,
                    queryResultRaw, evalResult, dumped, completion, invocations, caught,
                    encoderInput, output, processorResult,
                    USER_ETH_ADDRESS, variables, substituted, uidCalls >>

NextValidate == ValidateProcessorResult

SpecValidate == InitValidate /\ [][NextValidate]_vars

(***************************************************************************)
(* substitutePlaceholders on its own: the variables of any query are       *)
(* substituted once, with USER_ETH_ADDRESS set or unset.                   *)
(***************************************************************************)
InitSubstitute ==
    /\ NoRun
    /\ variables \in QueryVariables
    /\ USER_ETH_ADDRESS \in UserEthAddresses
    /\ substituted = NotCalled
    /\ uidCalls = NoUidCalls

SubstitutePlaceholders ==
    /\ pc = "sdk"
    /\ substituted.kind = "none"
    /\ substituted' = Returned(substitutePlaceholders(variables, USER_ETH_ADDRESS))
    /\ UNCHANGED << pc, runs, recipeImport, recipe, fetches, queryResults, processor, contexts, live, vm,
                    queryResultRaw, evalResult, dumped, completion, invocations, caught,
                    encoderInput, output, processorResult, validation,
                    USER_ETH_ADDRESS, variables, uidCalls >>

NextSubstitute == SubstitutePlaceholders

SpecSubstitute == InitSubstitute /\ [][NextSubstitute]_vars

(***************************************************************************)
(* getSchemaUid on its own: callers call it at any time, with any triple,  *)
(* and their calls may overlap.                                            *)
(***************************************************************************)
InitUid ==
    /\ NoRun
    /\ USER_ETH_ADDRESS = EnvUnset
    /\ variables = JObj(<<>>)
    /\ substituted = NotCalled
    /\ uidCalls = NoUidCalls

\* a caller calls getSchemaUid({schema, resolver, revokable})
GetSchemaUidCall(c) ==
    /\ pc = "sdk"
    /\ uidCalls[c].pc = "idle"
    /\ \E schema \in Schemas, resolver \in Resolvers, revokable \in BOOLEAN :
        uidCalls' = [uidCalls EXCEPT ![c] =
                        [pc |-> "called", schema |-> schema, resolver |-> resolver,
                         revokable |-> revokable, result |-> NotCalled]]
    /\ UNCHANGED << pc, runs, recipeImport, recipe, fetches, queryResults, processor,
                    contexts, live, vm, queryResultRaw, evalResult, dumped, completion,
                    invocations, caught, encoderInput, output, processorResult, validation,
                    USER_ETH_ADDRESS, variables, substituted >>

\* the call computes the identifier from its parameters and returns or throws
GetSchemaUidReturn(c) ==
    /\ pc = "sdk"
    /\ uidCalls[c].pc = "called"
    /\ LET own == Parameters(uidCalls, c)
       IN uidCalls' = [uidCalls EXCEPT ![c].pc = "returned",
                                       ![c].result = getSchemaUid(own.schema, own.resolver,
                                                                  own.revokable)]
    /\ UNCHANGED << pc, runs, recipeImport, recipe, fetches, queryResults, processor,
                    contexts, live, vm, queryResultRaw, evalResult, dumped, completion,
                    invocations, caught, encoderInput, output, processorResult, validation,
                    USER_ETH_ADDRESS, variables, substituted >>

NextUid ==
    \/ \E c \in Callers : GetSchemaUidCall(c)
    \/ \E c \in Callers : GetSchemaUidReturn(c)

SpecUid == InitUid /\ [][NextUid]_vars

(***************************************************************************)
(* Claims about validateProcessorResult.                                   *)
(***************************************************************************)
\* the processor result is a string, and validateProcessorResult has run on it
ValidatedText == validation.kind # "none" /\ processorResult.t = "text"

\* the string is well-formed JSON text
ParsesToJson == ValidatedText /\ JSONparse(processorResult.toks).ok
ParsedJson == JSONparse(processorResult.toks).val
ParsesToArray == ParsesToJson /\ ParsedJson.t = "array"
ParsesToItems == ParsesToArray /\ Len(ParsedJson.items) > 0

EmptyResultError == Error("Processor returned an empty array")
NotAnArrayError == Error("Processor result must be an array")
InvalidItemError == Error("Invalid processor result")
NotAStringError == Error("Processor result must be a string")

\* an element as the SchemaItem contract wants it: a plain object whose name and
\* type are strings and whose value is a string, boolean, number, record or array
IsObject(el) == el.t = "object"
StringAt(el, key) == IsObject(el) /\ HasKey(el.members, key) /\ Get(el, key).t = "string"
ValueInUnion(el) ==
    /\ IsObject(el)
    /\ HasKey(el.members, "value")
    /\ Get(el, "value").t \in {"string", "boolean", "number", "object", "array"}
MatchesContract(el) == StringAt(el, "name") /\ StringAt(el, "type") /\ ValueInUnion(el)

\* C1: a string that parses to an empty JSON array makes validateProcessorResult
\* throw the empty-result error, and validateProcessorResult never returns zero
\* items.
C1_EmptyArrayFails ==
    /\ (ParsesToArray /\ Len(ParsedJson.items) = 0) => validation = Thrown(EmptyResultError)
    /\ validation.kind = "return" => Len(validation.value) > 0

C1_Witness ==
    /\ ParsesToArray /\ Len(ParsedJson.items) = 0
    /\ processorResult.toks = <<Tok("["), Space, Tok("]")>>
    /\ validation.kind = "throw"

\* C2: a string that parses to a JSON value that is no array (object, number,
\* string, boolean, null) makes validateProcessorResult throw the not-an-array
\* error, which differs from the empty-result and the invalid-item error.
C2_NonArrayFails ==
    /\ (ParsesToJson /\ ParsedJson.t # "array") => validation = Thrown(NotAnArrayError)
    /\ NotAnArrayError # EmptyResultError
    /\ NotAnArrayError # InvalidItemError

C2_Witness ==
    /\ ParsesToJson
    /\ ParsedJson = JObj(<<Member("a", JNum(1))>>)
    /\ validation.kind = "throw"

\* C3: a string that parses to a non-empty array whose elements all match the
\* SchemaItem contract is accepted, and the i-th returned item has exactly the
\* name, type and value of the i-th element: same length, same order, no other
\* key.
C3_ValidItemsReturnedInOrder ==
    (ParsesToItems /\ \A i \in 1..Len(ParsedJson.items) : MatchesContract(ParsedJson.items[i]))
    => /\ validation.kind = "return"
       /\ Len(validation.value) = Len(ParsedJson.items)
       /\ \A i \in 1..Len(ParsedJson.items) :
            /\ DOMAIN validation.value[i] = {"name", "type", "value"}
            /\ validation.value[i].name = Get(ParsedJson.items[i], "name").s
            /\ validation.value[i].type = Get(ParsedJson.items[i], "type").s
            /\ validation.value[i].value = Get(ParsedJson.items[i], "value")

C3_Witness ==
    /\ ParsesToItems
    /\ validation.kind = "return"
    /\ Len(ParsedJson.items) = 2
    /\ \A i \in 1..2 : MatchesContract(ParsedJson.items[i])
    /\ ParsedJson.items[1] # ParsedJson.items[2]
    /\ HasKey(ParsedJson.items[1].members, "extra")

\* C4: if any element of the parsed array misses the SchemaItem contract (name or
\* type missing or no string, value missing or null, element no object), wherever
\* it stands and however many other elements are valid, validateProcessorResult
\* throws the one invalid-item error and returns no item.
C4_AllOrNothing ==
    (ParsesToItems /\ \E i \in 1..Len(ParsedJson.items) : ~MatchesContract(ParsedJson.items[i]))
    => validation = Thrown(InvalidItemError)

C4_Witness ==
    /\ ParsesToItems
    /\ Len(ParsedJson.items) = 2
    /\ MatchesContract(ParsedJson.items[1])
    /\ ParsedJson.items[2] = Item(JStr("ok"), JStr("bool"), JNull)
    /\ validation.kind = "throw"

\* an element that is fine but for an empty name or an empty type
HasEmptyNameOrType(el) ==
    /\ MatchesContract(el)
    /\ Get(el, "name").s = "" \/ Get(el, "type").s = ""

\* C5 as claimed: an array with an element whose name or type is the empty string
\* is rejected.
C5_EmptyNameOrTypeRejected ==
    (ParsesToItems /\ \E i \in 1..Len(ParsedJson.items) : HasEmptyNameOrType(ParsedJson.items[i]))
    => validation.kind = "throw"

\* C5 as amended: an element whose name or type is missing or no string makes
\* validateProcessorResult reject the array, but the empty string is a string: an
\* array whose elements match the contract is accepted although names or types
\* in it are empty, and the empty name or type is returned as it is.
C5_EmptyNameOrTypeAccepted ==
    /\ (ParsesToItems /\ \E i \in 1..Len(ParsedJson.items) :
            ~(StringAt(ParsedJson.items[i], "name") /\ StringAt(ParsedJson.items[i], "type")))
       => validation.kind = "throw"
    /\ (ParsesToItems
        /\ (\A i \in 1..Len(ParsedJson.items) : MatchesContract(ParsedJson.items[i]))
        /\ (\E j \in 1..Len(ParsedJson.items) : HasEmptyNameOrType(ParsedJson.items[j])))
       => /\ validation.kind = "return"
          /\ \A i \in 1..Len(ParsedJson.items) :
                HasEmptyNameOrType(ParsedJson.items[i])
                => /\ validation.value[i].name = Get(ParsedJson.items[i], "name").s
                   /\ validation.value[i].type = Get(ParsedJson.items[i], "type").s

C5_Witness ==
    /\ ParsesToItems
    /\ Len(ParsedJson.items) = 2
    /\ Get(ParsedJson.items[1], "name") = JStr("")
    /\ Get(ParsedJson.items[2], "type") = JStr("")
    /\ validation.kind = "return"
    /\ Len(validation.value) = 2
    /\ validation.value[1].name = ""

\* C16: validateProcessorResult throws on every string that is not well-formed
\* JSON text; what it throws is a SyntaxError, which is none of the errors for a
\* result that is no string, no array, an empty array or has an invalid item, and
\* it throws that on no well-formed text
C16_MalformedJsonFails ==
    ValidatedText =>
        /\ processorResult.toks \in MalformedTexts =>
              /\ validation.kind = "throw"
              /\ validation.value.name = "SyntaxError"
              /\ validation.value \notin
                    {NotAStringError, NotAnArrayError, EmptyResultError, InvalidItemError}
        /\ processorResult.toks \in WellFormedTexts =>
              (validation.kind = "throw" => validation.value.name # "SyntaxError")

\* an array cut short before its closing bracket has been validated
C16_Witness ==
    /\ ValidatedText
    /\ processorResult.toks \in MalformedTexts
    /\ Len(processorResult.toks) > 4
    /\ processorResult.toks[1] = Tok("[")
    /\ validation = Thrown(JSONSyntaxError)

(***************************************************************************)
(* Claims about substitutePlaceholders.                                    *)
(***************************************************************************)
RECURSIVE HasPlaceholder(_)
\* some string value of the structure, at any depth, contains the placeholder
HasPlaceholder(obj) ==
    \E i \in 1..Len(obj.members) :
        LET value == obj.members[i].val
        IN \/ value.t = "chars" /\ Contains(value.cs, Placeholder)
           \/ value.t = "object" /\ HasPlaceholder(value)

\* C9 as claimed: the output of substitutePlaceholders contains no occurrence of
\* the placeholder, in any string value at any depth.
C9_NoPlaceholderSurvives ==
    substituted.kind = "return" => ~HasPlaceholder(substituted.value)

\* C10: when no string value of the variable structure contains the placeholder,
\* substitutePlaceholders returns a structure equal to the one it was given (same
\* keys in the same order, same nesting, same leaves), and the structure it was
\* given is left as it was.
C10_IdentityWithoutPlaceholder ==
    [][(substituted.kind = "none" /\ substituted'.kind = "return" /\ ~HasPlaceholder(variables))
        => (substituted'.value = variables /\ variables' = variables)]_vars

C10_Witness ==
    /\ substituted.kind = "return"
    /\ ~HasPlaceholder(variables)
    /\ Len(variables.members) = 2
    /\ \E i \in 1..2 : /\ variables.members[i].val.t = "chars"
                       /\ Contains(variables.members[i].val.cs, TokenHead)
    /\ \E i \in 1..2 : variables.members[i].val.t = "number"

RECURSIVE StringLeaves(_), StringLeavesFrom(_, _)
\* the string values of a structure, at any depth, in the order of the keys
StringLeaves(obj) == StringLeavesFrom(obj.members, 1)
StringLeavesFrom(members, i) ==
    IF i > Len(members) THEN <<>>
    ELSE LET value == members[i].val
         IN (IF value.t = "chars" THEN <<value.cs>>
             ELSE IF value.t = "object" THEN StringLeaves(value)
             ELSE <<>>)
            \o StringLeavesFrom(members, i + 1)

\* every string value of the output is the string value of the input at the same
\* place with each placeholder found from the left replaced by rep
LeavesReplacedBy(rep) ==
    LET before == StringLeaves(variables)
        after == StringLeaves(substituted.value)
    IN /\ Len(after) = Len(before)
       /\ \A i \in 1..Len(before) :
            /\ after[i] = ReplaceAll(before[i], Placeholder, rep)
            /\ before[i] = Placeholder => after[i] = rep

AddressAbsent == ~USER_ETH_ADDRESS.set

\* C11 as claimed: with USER_ETH_ADDRESS absent, substitutePlaceholders returns
\* and has put the zero address in the place of each placeholder.
C11_AbsentAddressGivesZeroAddress ==
    (substituted.kind # "none" /\ AddressAbsent) =>
        (substituted.kind = "return" /\ LeavesReplacedBy(ZeroAddress))

\* C11 as the code has it: with USER_ETH_ADDRESS absent, substitutePlaceholders
\* returns and has put the empty string in the place of each placeholder it
\* found in its pass from the left; the zero address appears nowhere in the
\* output.
C11_AbsentAddressGivesEmptyString ==
    (substituted.kind # "none" /\ AddressAbsent) =>
        /\ substituted.kind = "return"
        /\ LeavesReplacedBy(<<>>)
        /\ \A i \in 1..Len(StringLeaves(substituted.value)) :
                ~Contains(StringLeaves(substituted.value)[i], ZeroAddress)

\* a value that is the placeholder and nothing else has been substituted with
\* the address absent
C11_Witness ==
    /\ AddressAbsent
    /\ substituted.kind = "return"
    /\ \E i \in 1..Len(StringLeaves(variables)) :
            /\ StringLeaves(variables)[i] = Placeholder
            /\ StringLeaves(substituted.value)[i] = <<>>

(***************************************************************************)
(* Claims about runProcessor in the run command.                           *)
(***************************************************************************)
\* the queries of the recipe have their results
HasQueryResults == pc \in {"load", "newContext", "marshal", "eval", "dump", "finally",
                           "validate", "encode", "done"}

\* C12: whatever the order in which the fetches of a recipe's queries complete,
\* the array of results has as many entries as the recipe declares queries, its
\* i-th entry is the result of the fetch made for the i-th declared query, and the
\* JSON text handed to the processor lists the results in that same order
C12_ResultsInDeclaredOrder ==
    HasQueryResults =>
        /\ Len(fetches) = Len(recipe.value.queries)
        /\ Len(queryResults) = Len(recipe.value.queries)
        /\ \A i \in 1..Len(queryResults) :
              /\ fetches[i].variables =
                    substitutePlaceholders(Get(recipe.value.queries[i], "variables"),
                                           USER_ETH_ADDRESS)
              /\ queryResults[i] = fetches[i].result
        /\ queryResultRaw # JUndefined =>
              JSONparse(queryResultRaw.toks).val =
                  JArr([i \in 1..Len(fetches) |-> ResultJson(fetches[i].result)])

\* the second query completed before the first, with another result, and the
\* processor was given both
C12_Witness ==
    /\ pc = "eval"
    /\ Len(fetches) = 2
    /\ fetches[2].seq = 1
    /\ fetches[1].seq = 2
    /\ fetches[1].result # fetches[2].result
    /\ queryResults = <<fetches[1].result, fetches[2].result>>

\* C13 as claimed: a fetch whose request failed is a rejected fetchQuery carrying
\* the failure itself, the run command catches that failure, and no processor is
\* loaded or run on the results.
C13_FetchFailureSurfaced ==
    \A i \in 1..Len(fetches) :
        fetches[i].outcome = "network" =>
            /\ fetches[i].state = "rejected"
            /\ fetches[i].result = FetchFailed
            /\ pc = "failed"
            /\ caught = Thrown(FetchFailed)
            /\ processor = NoScript

\* nothing of the run has happened beyond the import of the recipe
NothingFetchedOrRun ==
    /\ recipe = NoRecipe
    /\ fetches = <<>>
    /\ queryResults = <<>>
    /\ processor = NoScript
    /\ vm = 0
    /\ evalResult.kind = "none"
    /\ validation = NotCalled
    /\ encoderInput = NotCalled

\* the imported declaration is a recipe but for its revokable flag
RecipeButForRevokable ==
    /\ recipeImport.kind = "return"
    /\ recipeImport.value.t = "object"
    /\ RecipeAccepts(JObj(SetMember(recipeImport.value.members, "revokable", JBool(FALSE))))

InRunProcessor == pc \in {"marshal", "eval", "dump", "finally"}

NonStringScript == processor.kind = "return" /\ TypeOf(processor.value) # "string"

\* C6: a run whose script ends with a value that is not a string never gets
\* schema items out of validateProcessorResult, never reaches the encoder and
\* never prints "Done"; once validateProcessorResult has been called the run has
\* failed with the error it threw, which says the result is no string or no JSON
C6_NonStringResultFails ==
    NonStringScript =>
        /\ validation.kind # "return"
        /\ encoderInput = NotCalled
        /\ pc \notin {"encode", "done"}
        /\ output # "Done"
        /\ pc = "validate" =>
              (TypeOf(processorResult) # "string" \/ ~JSONparse(processorResult.toks).ok)
        /\ validation.kind # "none" =>
              /\ validation.kind = "throw"
              /\ validation.value \in {NotAStringError, JSONSyntaxError}
              /\ pc = "failed"
              /\ caught = validation
              /\ output = "Run failed"

\* a script ending with undefined has gone through validateProcessorResult
C6_Witness ==
    /\ processor = ScriptReturns(JUndefined)
    /\ completion = Returned(JUndefined)
    /\ validation = Thrown(NotAStringError)
    /\ pc = "failed"

\* C7: every call of runProcessor makes one new context, which is the only live
\* one while the call is under way and is disposed when the call returns or
\* throws: outside runProcessor no context is live, after any calls that
\* returned or threw
C7_ContextsDisposed ==
    /\ InRunProcessor =>
          /\ live = {vm}
          /\ vm = contexts
          /\ contexts = Len(invocations) + 1
    /\ ~InRunProcessor =>
          /\ live = {}
          /\ contexts = Len(invocations)

\* a call that threw and a call that returned are over
C7_Witness ==
    /\ Len(invocations) = 2
    /\ invocations[1] = "throw"
    /\ invocations[2] = "return"
    /\ contexts = 2
    /\ live = {}
    /\ ~InRunProcessor

\* C8: when the evaluation of the script ends with an error and the error is
\* dumped, runProcessor throws the dumped value itself and returns nothing; the
\* run command catches that very value, and the context is disposed
C8_SandboxErrorForwarded ==
    (evalResult.kind = "error" /\ dumped.kind = "return") =>
        /\ dumped.value = Dump(evalResult.handle)
        /\ completion = Thrown(dumped.value)
        /\ processorResult = JUndefined
        /\ validation = NotCalled
        /\ pc \in {"finally", "failed"}
        /\ pc = "failed" => (caught = Thrown(dumped.value) /\ live = {})

\* the script threw an Error, and the run command caught its name and message
C8_Witness ==
    /\ processor = ScriptThrows(SandboxError("Error", "no passport"))
    /\ evalResult.kind = "error"
    /\ pc = "failed"
    /\ Get(caught.value, "name") = JStr("Error")
    /\ Get(caught.value, "message") = JStr("no passport")
    /\ live = {}

(***************************************************************************)
(* Claims about the stages of the run command.                             *)
(***************************************************************************)
ProcessorStarted == processor # NoScript \/ vm # 0 \/ evalResult.kind # "none"

FetchFailedAt(i) == fetches[i].outcome \in {"network", "body"}

\* a stage has left its trace only if the stage before it has succeeded
StagesInOrder ==
    /\ fetches # <<>> => recipe.kind = "return"
    /\ ProcessorStarted =>
          /\ recipe.kind = "return"
          /\ Len(queryResults) = Len(recipe.value.queries)
          /\ \A i \in 1..Len(fetches) : fetches[i].state = "fulfilled"
    /\ validation # NotCalled =>
          /\ completion.kind = "return"
          /\ processorResult = completion.value
    /\ encoderInput # NotCalled => validation.kind = "return"

\* the encoder is given what validateProcessorResult returned, which is not empty
EncoderGetsValidatedItems ==
    encoderInput # NotCalled =>
        /\ encoderInput = validation
        /\ Len(encoderInput.value) > 0

\* the stages that throw stop the run
ThrowStopsRun ==
    /\ (recipeImport.kind = "return" /\ recipe = NoRecipe) =>
          (pc = "failed" /\ NothingFetchedOrRun)
    /\ completion.kind = "throw" =>
          (pc \in {"finally", "failed"} /\ validation = NotCalled /\ encoderInput = NotCalled)
    /\ validation.kind = "throw" => (pc = "failed" /\ encoderInput = NotCalled)

\* a fetch that failed stops the run
FetchFailureStopsRun ==
    \A i \in 1..Len(fetches) :
        FetchFailedAt(i) =>
            (pc = "failed" /\ ~ProcessorStarted /\ validation = NotCalled
                /\ encoderInput = NotCalled)

\* success is reported only when every stage has succeeded
SuccessOnlyIfAllSucceeded ==
    output = "Done" =>
        /\ pc = "done"
        /\ caught = NotCalled
        /\ recipe.kind = "return"
        /\ \A i \in 1..Len(fetches) : ~FetchFailedAt(i)
        /\ completion.kind = "return"
        /\ validation.kind = "return"
        /\ encoderInput # NotCalled

\* C17 as claimed: the stages of a run happen in the order parse recipe, fetch
\* queries, run processor, validate, encode; a failure in any stage stops the run
\* before any later stage; the encoder only gets a non-empty sequence that
\* validateProcessorResult returned; success is reported only if every stage
\* succeeded.
C17_StagesStopOnFailure ==
    /\ StagesInOrder
    /\ EncoderGetsValidatedItems
    /\ ThrowStopsRun
    /\ FetchFailureStopsRun
    /\ SuccessOnlyIfAllSucceeded

(***************************************************************************)
(* Claims about getSchemaUid.                                              *)
(***************************************************************************)
SameTriple(a, b) ==
    /\ a.schema = b.schema
    /\ a.resolver = b.resolver
    /\ a.revokable = b.revokable

\* the bytes the identifier is the digest of: the text of the schema, then the
\* twenty bytes of the resolver, then one byte for the flag
TripleBytes(call) ==
    [i \in 1..Len(call.schema) |-> CharCode(call.schema[i])]
    \o [i \in 1..20 |-> <<LowerHex(call.resolver[2 * i + 1]), LowerHex(call.resolver[2 * i + 2])>>]
    \o << IF call.revokable THEN <<"0", "1">> ELSE <<"0", "0">> >>

====
